---- MODULE Spec2Model ----
(***************************************************************************)
(* Visual Assistant: the App component (src/App.tsx) and the scene         *)
(* analyzer service (src/unnamed/part_000).                                *)
(*                                                                         *)
(* The model follows React's rules for the component: a state update       *)
(* re-renders the component, and the start/stop effect (App.tsx 154-177)   *)
(* re-runs, cleanup first, whenever isAssistantActive or the identity of   *)
(* startCamera / processFrame changes; both are rebuilt when speak is, and *)
(* speak is rebuilt when isAssistantActive or voices changes (line 71).    *)
(* The re-render and the effect are taken in the same step as the handler  *)
(* that caused them.  Platform callbacks (getUserMedia settling, the       *)
(* interval timer, the remote call returning, utterance events) are steps  *)
(* of their own.                                                           *)
(***************************************************************************)
EXTENDS Integers, FiniteSets, Sequences, Bags, TLC

\* ---------------------------------------------------------------- bounds
MaxCameraRequests == 2  \* camera requests pending plus streams left live
MaxPendingCalls == 2    \* remote analysis calls in flight

\* ------------------------------------------------------------- constants
MAX_DIMENSION == 480

StatusIdle == "Tap screen to begin"
StatusStartingCamera == "Starting camera..."
StatusListening == "Listening..."
StatusAnalyzing == "Analyzing scene..."
StatusSpeaking == "Speaking..."
StatusStopped == "Assistant stopped."

NoError == "null"
CameraErrorMessage == "Could not access the camera. Please check permissions."
SpeechErrorMessage == "A speech error occurred."

StartingText == "Starting assistant."
CameraErrorText == "Error: Could not access the camera."
FrameErrorText == "Error: Failed to process the scene."
AnalyzeErrorText == "Error analyzing."
NoViewText == "No clear view."

\* what the remote model can answer: the request rejects, the response has
\* no text, an empty text, or a description
Rejected == "<rejected>"
Undefined == "<undefined>"
SceneTexts == {"Stop. Curb ahead."}
Responses == {Rejected, Undefined, ""} \cup SceneTexts

\* the platform's voice list: a sequence of [name, lang]
preferredVoiceNames ==
  {"Google US English", "Alex", "Samantha", "Daniel",
   "Microsoft David - English (United States)",
   "Microsoft Zira - English (United States)"}
VoiceLists ==
  { <<>>,
    << [name |-> "Amelie", lang |-> "fr-FR"],
       [name |-> "Fred", lang |-> "en-US"],
       [name |-> "Alex", lang |-> "en-US"] >> }
NoVoice == [name |-> "<default>", lang |-> ""]

\* sizes of the video frame while a stream is attached
FrameSizes == { <<640, 480>>, <<320, 240>> }

\* edges of the frames the frame sampler is tried on: around MAX_DIMENSION,
\* the common camera formats, and edges whose scaled value is a half
VideoEdges ==
  {1, 2, 8, 11, 240, 320, 479, 480, 481, 512, 640, 704, 719, 720, 960, 1080,
   1280, 1920}

\* the size of a canvas element that was never sized
DefaultCanvas == <<300, 150>>

NoStream == 0
NoInterval == 0
None == [text |-> "<none>", act |-> FALSE, voice |-> NoVoice, state |-> "none"]

VARIABLES
  isAssistantActive,      \* useState, line 7
  statusMessage,          \* useState, line 8
  error,                  \* useState, line 9
  voices,                 \* useState, line 10
  mediaStreamRef,         \* useRef, line 14: id of the stream, or NoStream
  processingIntervalRef,  \* useRef, line 15: id of the interval, or NoInterval
  isProcessingRef,        \* useRef, line 16
  isSpeakingRef,          \* useRef, line 17
  streams,                \* streams obtained whose tracks are not stopped
  timers,                 \* intervals set and not cleared
  gumPending,             \* bag of getUserMedia requests not yet settled
  analyses,               \* bag of remote analysis calls not yet returned
  utter,                  \* the utterance in the synthesis queue, or None
  cancelled,              \* cancelled utterances whose last event is due
  videoSize,              \* the frame sampler's input: videoWidth, videoHeight
  canvasSize              \* the frame sampler's output: canvas width, height

vars == << isAssistantActive, statusMessage, error, voices, mediaStreamRef,
           processingIntervalRef, isProcessingRef, isSpeakingRef, streams,
           timers, gumPending, analyses, utter, cancelled, videoSize,
           canvasSize >>

\* the variables of the session, and those of the frame sampler taken alone
sessionVars == << isAssistantActive, statusMessage, error, voices,
                  mediaStreamRef, processingIntervalRef, isProcessingRef,
                  isSpeakingRef, streams, timers, gumPending, analyses, utter,
                  cancelled >>
samplerVars == << videoSize, canvasSize >>

\* ------------------------------------------------------- pure functions

IsPreferred(v) == v.name \in preferredVoiceNames
IsEnUS(v) == v.lang = "en-US"

\* voices.find(...), lines 40 and 42: the first voice that qualifies
RECURSIVE FindVoice(_, _, _)
FindVoice(vs, i, byName) ==
  IF i > Len(vs) THEN NoVoice
  ELSE IF (IF byName THEN IsPreferred(vs[i]) ELSE IsEnUS(vs[i])) THEN vs[i]
  ELSE FindVoice(vs, i + 1, byName)

\* speak, lines 36-46: the voice put on the utterance
SelectVoice(vs) ==
  LET selectedVoice == FindVoice(vs, 1, TRUE)
  IN IF selectedVoice # NoVoice THEN selectedVoice ELSE FindVoice(vs, 1, FALSE)

\* a Math.round that truncates
FloorDiv(n, d) == n \div d

\* Math.round of a non-negative quotient n / d
RoundDiv(n, d) == (2 * n + d) \div (2 * d)

\* Math.round((MAX_DIMENSION / long) * short), lines 123 and 128.  The
\* quotient is rounded to a double before the product is taken, so where
\* the exact value n + 1/2 is a half the product can come out just below
\* it: 704 x 11 gives 7 (7.499999999999999), 512 x 8 gives 8.  At a half
\* both neighbours are possible results; everywhere else the double
\* product rounds as the exact value does.
ScaledEdges(short, long) ==
  IF 2 * ((MAX_DIMENSION * short) % long) = long
  THEN { (MAX_DIMENSION * short) \div long, (MAX_DIMENSION * short) \div long + 1 }
  ELSE { RoundDiv(MAX_DIMENSION * short, long) }

\* processFrame, lines 115-134: the canvas sizes for a video frame
TargetSizes(videoWidth, videoHeight) ==
  IF videoWidth > videoHeight
  THEN IF videoWidth > MAX_DIMENSION
       THEN { << MAX_DIMENSION, e >> : e \in ScaledEdges(videoHeight, videoWidth) }
       ELSE { << videoWidth, videoHeight >> }
  ELSE IF videoHeight > MAX_DIMENSION
       THEN { << e, MAX_DIMENSION >> : e \in ScaledEdges(videoWidth, videoHeight) }
       ELSE { << videoWidth, videoHeight >> }

\* canvas.toDataURL('image/jpeg', 0.5), line 140: a canvas with no pixels
\* gives "data:,", any other a base64 JPEG
ToDataURL(size) ==
  IF size[1] = 0 \/ size[2] = 0
  THEN [mime |-> "", base64 |-> FALSE, data |-> ""]
  ELSE [mime |-> "image/jpeg", base64 |-> TRUE, data |-> "jpeg"]

\* fileToGenerativePart, part_000 lines 14-28: does /^data:(.+);base64,(.+)$/
\* match (otherwise it throws)
MatchesDataUrl(url) == url.base64 /\ url.mime # "" /\ url.data # ""

\* an analyzeScene without the fallback phrase
AnalyzeSceneNoFallback(url, response) ==
  IF ~MatchesDataUrl(url) THEN AnalyzeErrorText
  ELSE IF response = Rejected THEN AnalyzeErrorText
  ELSE IF response = Undefined THEN ""
  ELSE response

\* analyzeScene, part_000 lines 30-67: the description returned for a data
\* URL and the answer of the remote model
AnalyzeScene(url, response) ==
  IF ~MatchesDataUrl(url) THEN AnalyzeErrorText
  ELSE IF response = Rejected THEN AnalyzeErrorText
  ELSE IF response = Undefined \/ response = "" THEN NoViewText
  ELSE response

\* ------------------------------------------------ the speech synthesizer
\* A synthesizer state is [u |-> the queued or speaking utterance or None,
\*                         c |-> the cancelled utterances whose event is due]

\* window.speechSynthesis.cancel(): the utterance leaves the queue and the
\* platform owes it a last event; of a cancelled utterance only the closure's
\* isAssistantActive, which its handlers read, is kept
SynthCancel(s) ==
  IF s.u = None THEN s
  ELSE [u |-> None,
        c |-> s.c \cup {[act |-> s.u.act]}]

\* speak, lines 31-71, called with the closure's isAssistantActive and voices
Speak(s, text, act, vs) ==
  [u |-> [text |-> text, act |-> act, voice |-> SelectVoice(vs), state |-> "queued"],
   c |-> SynthCancel(s).c]

\* ------------------------------------------------------- camera, timers

\* a clearInterval that leaves the interval running
ClearIntervalNoop(ts, id) == ts

\* clearInterval
ClearInterval(ts, id) == ts \ {id}

\* stopCamera, lines 73-81: the tracks of the referenced stream are stopped
StopTracks(live, ref) == live \ {ref}

\* a processFrame without its finally: the flag keeps its value
ProcessFrameNoFinally(processing) == processing

\* The calls in flight when the session stops belong to no session any more
\* (the stop branch, lines 158-168, forgets them: isProcessingRef = false)
EndSession(calls) ==
  LET ended == {[a EXCEPT !.current = FALSE] : a \in BagToSet(calls)}
  IN [a \in ended |->
        CopiesIn(a, calls) + CopiesIn([a EXCEPT !.current = TRUE], calls)]

\* processFrame, finally, lines 149-151
ProcessFrameFinally(processing) == FALSE

\* ------------------------------------------------------------ the state

Synth == [u |-> utter, c |-> cancelled]

Init ==
  /\ isAssistantActive = FALSE
  /\ statusMessage = StatusIdle
  /\ error = NoError
  /\ voices = <<>>
  /\ mediaStreamRef = NoStream
  /\ processingIntervalRef = NoInterval
  /\ isProcessingRef = FALSE
  /\ isSpeakingRef = FALSE
  /\ streams = {}
  /\ timers = {}
  /\ gumPending = EmptyBag
  /\ analyses = EmptyBag
  /\ utter = None
  /\ cancelled = {}
  /\ videoSize = <<0, 0>>
  /\ canvasSize = DefaultCanvas

\* The identity of a new stream or interval: one not in use
FreshId(inUse) == CHOOSE i \in 1..(Cardinality(inUse) + 1) : i \notin inUse

\* The start/stop effect, lines 154-177, re-run after a render in which
\* isAssistantActive or speak changed: the cleanup of the previous run
\* (170-176), then the body for the new isAssistantActive (155-168).
\* s is the synthesizer and pend the pending camera requests as the handler
\* left them, vs the voices of the render.
Effect(active, s, vs, pend) ==
  LET \* cleanup: stopCamera(), clearInterval(ref), speechSynthesis.cancel()
      liveAfterCleanup == StopTracks(streams, mediaStreamRef)
      timersAfterCleanup ==
        IF processingIntervalRef # NoInterval
        THEN ClearInterval(timers, processingIntervalRef) ELSE timers
      synthAfterCleanup == SynthCancel(s)
      streamAfterCleanup == NoStream
      timerId == FreshId(timersAfterCleanup)
  IN /\ streams' = liveAfterCleanup
     /\ mediaStreamRef' = streamAfterCleanup
     /\ IF active
        THEN \* startCamera() up to its await, then setInterval
             /\ BagCardinality(pend) + Cardinality(liveAfterCleanup) < MaxCameraRequests
             /\ IF streamAfterCleanup # NoStream
                THEN /\ statusMessage' = statusMessage
                     /\ gumPending' = pend
                ELSE /\ statusMessage' = StatusStartingCamera
                     /\ gumPending' = pend (+) SetToBag({[voices |-> vs]})
             /\ timers' = timersAfterCleanup \cup {timerId}
             /\ processingIntervalRef' = timerId
             /\ utter' = synthAfterCleanup.u
             /\ cancelled' = synthAfterCleanup.c
             /\ UNCHANGED << isProcessingRef, isSpeakingRef >>
        ELSE \* stopCamera(), clear and forget the interval, cancel, reset
             /\ timers' = IF processingIntervalRef # NoInterval
                          THEN ClearInterval(timersAfterCleanup, processingIntervalRef)
                          ELSE timersAfterCleanup
             /\ processingIntervalRef' = NoInterval
             /\ utter' = SynthCancel(synthAfterCleanup).u
             /\ cancelled' = SynthCancel(synthAfterCleanup).c
             /\ isProcessingRef' = FALSE
             /\ isSpeakingRef' = FALSE
             /\ statusMessage' = StatusIdle
             /\ gumPending' = pend

\* handleToggleAssistant, lines 179-185, with the render and effect it causes
handleToggleAssistant ==
  /\ error' = NoError
  /\ isAssistantActive' = ~isAssistantActive
  /\ IF ~isAssistantActive
     THEN /\ Effect(TRUE, Speak(Synth, StartingText, isAssistantActive, voices), voices,
                    gumPending)
          /\ analyses' = analyses
     ELSE /\ Effect(FALSE, Synth, voices, gumPending)
          /\ analyses' = EndSession(analyses)
  /\ voices' = voices
  /\ UNCHANGED samplerVars

\* loadVoices on a voiceschanged event, lines 21-25: voices becomes a new
\* array, speak and with it startCamera and processFrame are rebuilt, so the
\* start/stop effect re-runs
loadVoices ==
  /\ \E vs \in VoiceLists :
       /\ voices' = vs
       /\ Effect(isAssistantActive, Synth, vs, gumPending)
  /\ UNCHANGED << isAssistantActive, error, analyses >>
  /\ UNCHANGED samplerVars

\* startCamera after its await, lines 90-94: getUserMedia resolved
startCameraResolved ==
  \E r \in BagToSet(gumPending) :
    /\ gumPending' = gumPending (-) SetToBag({r})
    /\ mediaStreamRef' = FreshId(streams \cup {mediaStreamRef})
    /\ streams' = streams \cup {mediaStreamRef'}
    /\ statusMessage' = StatusListening
    /\ UNCHANGED << isAssistantActive, error, voices, processingIntervalRef,
                    isProcessingRef, isSpeakingRef, timers, analyses, utter,
                    cancelled >>
    /\ UNCHANGED samplerVars

\* startCamera's catch, lines 95-100: getUserMedia rejected.  speak is the
\* one of the render that started the request (an active one).
startCameraRejected ==
  \E r \in BagToSet(gumPending) :
    LET s == Speak(Synth, CameraErrorText, TRUE, r.voices)
    IN /\ error' = CameraErrorMessage
       /\ isAssistantActive' = FALSE
       /\ IF isAssistantActive
          THEN Effect(FALSE, s, voices, gumPending (-) SetToBag({r}))
          ELSE /\ utter' = s.u
               /\ cancelled' = s.c
               /\ gumPending' = gumPending (-) SetToBag({r})
               /\ UNCHANGED << statusMessage, mediaStreamRef, processingIntervalRef,
                               isProcessingRef, isSpeakingRef, streams, timers >>
       /\ analyses' = EndSession(analyses)
       /\ voices' = voices
       /\ UNCHANGED samplerVars

\* processFrame, lines 104-106: the tick is dropped
ProcessFrameSkipped ==
  /\ timers # {}
  /\ isProcessingRef \/ isSpeakingRef
  /\ UNCHANGED vars

\* processFrame up to its await, lines 108-141, for a frame of the given size
ProcessFrameCycle(size) ==
  \E target \in TargetSizes(size[1], size[2]) :
  LET url == ToDataURL(target)
  IN /\ timers # {}
     /\ ~(isProcessingRef \/ isSpeakingRef)
     /\ statusMessage' = StatusAnalyzing
     /\ IF MatchesDataUrl(url)
        THEN \* the remote request is in flight
             /\ BagCardinality(analyses) < MaxPendingCalls
             /\ isProcessingRef' = TRUE
             /\ analyses' = analyses (+)
                  SetToBag({[current |-> TRUE, voices |-> voices]})
             /\ UNCHANGED << utter, cancelled >>
        ELSE \* analyzeScene returns at once; speak, finally
             /\ utter' = Speak(Synth, AnalyzeScene(url, Rejected), TRUE, voices).u
             /\ cancelled' = Speak(Synth, AnalyzeScene(url, Rejected), TRUE, voices).c
             /\ isProcessingRef' = ProcessFrameFinally(TRUE)
             /\ analyses' = analyses
     /\ UNCHANGED << isAssistantActive, error, voices, mediaStreamRef,
                     processingIntervalRef, isSpeakingRef, streams, timers,
                     gumPending >>
     /\ UNCHANGED samplerVars

\* the sizes the video element can report
VideoSizes == IF mediaStreamRef = NoStream THEN {<<0, 0>>} ELSE FrameSizes

\* processFrame, lines 103-152, called by a live interval.  The closure's
\* voices are those of the render whose effect set the interval, which are
\* the current ones: the effect re-runs when they change.
processFrame ==
  \/ ProcessFrameSkipped
  \/ \E size \in VideoSizes : ProcessFrameCycle(size)

\* processFrame after its await, lines 141-151: the remote call a returned
AnalysisReturns(a, response) ==
  LET description == AnalyzeScene(ToDataURL(<<1, 1>>), response)
      s == Speak(Synth, description, TRUE, a.voices)
  IN /\ BagIn(a, analyses)
     /\ analyses' = analyses (-) SetToBag({a})
     /\ utter' = s.u
     /\ cancelled' = s.c
     /\ isProcessingRef' = ProcessFrameFinally(isProcessingRef)
     /\ UNCHANGED << isAssistantActive, statusMessage, error, voices,
                     mediaStreamRef, processingIntervalRef, isSpeakingRef,
                     streams, timers, gumPending >>
     /\ UNCHANGED samplerVars

analysisReturned ==
  \E a \in BagToSet(analyses), response \in Responses : AnalysisReturns(a, response)

\* utterance.onstart, lines 52-55.  The platform delivers the events of
\* earlier utterances first.
utteranceOnStart ==
  /\ utter # None /\ utter.state = "queued" /\ cancelled = {}
  /\ utter' = [utter EXCEPT !.state = "speaking"]
  /\ isSpeakingRef' = TRUE
  /\ statusMessage' = StatusSpeaking
  /\ UNCHANGED << isAssistantActive, error, voices, mediaStreamRef,
                  processingIntervalRef, isProcessingRef, streams, timers,
                  gumPending, analyses, cancelled >>
  /\ UNCHANGED samplerVars

\* an onend that takes every session for a stopped one
OnEndStopped(active) ==
  /\ isSpeakingRef' = FALSE
  /\ statusMessage' = StatusStopped
  /\ error' = error

\* utterance.onend, lines 56-63; active is the closure's isAssistantActive
OnEnd(active) ==
  /\ isSpeakingRef' = FALSE
  /\ statusMessage' = IF active THEN StatusListening ELSE StatusStopped
  /\ error' = error

\* an onerror that leaves the speaking flag up
OnErrorStillSpeaking ==
  /\ isSpeakingRef' = isSpeakingRef
  /\ error' = SpeechErrorMessage
  /\ statusMessage' = statusMessage

\* utterance.onerror, lines 64-68
OnError ==
  /\ isSpeakingRef' = FALSE
  /\ error' = SpeechErrorMessage
  /\ statusMessage' = statusMessage

\* the utterance was spoken to its end
utteranceOnEnd ==
  /\ utter # None /\ utter.state = "speaking"
  /\ utter' = None
  /\ OnEnd(utter.act)
  /\ UNCHANGED << isAssistantActive, voices, mediaStreamRef,
                  processingIntervalRef, isProcessingRef, streams, timers,
                  gumPending, analyses, cancelled >>
  /\ UNCHANGED samplerVars

\* the synthesizer failed on the utterance
utteranceOnError ==
  /\ utter # None /\ cancelled = {}
  /\ utter' = None
  /\ OnError
  /\ UNCHANGED << isAssistantActive, voices, mediaStreamRef,
                  processingIntervalRef, isProcessingRef, streams, timers,
                  gumPending, analyses, cancelled >>
  /\ UNCHANGED samplerVars

\* The last event of a cancelled utterance.  The Web Speech API asks for an
\* error event ("canceled" / "interrupted"); engines have also delivered an
\* end event, or nothing.
CancelOutcomes == {"error", "end", "none"}

CancelledUtteranceEvent(u, outcome) ==
  /\ u \in cancelled
  /\ cancelled' = cancelled \ {u}
  /\ CASE outcome = "error" -> OnError
       [] outcome = "end" -> OnEnd(u.act)
       [] OTHER -> UNCHANGED << isSpeakingRef, statusMessage, error >>
  /\ UNCHANGED << isAssistantActive, voices, mediaStreamRef,
                  processingIntervalRef, isProcessingRef, streams, timers,
                  gumPending, analyses, utter >>
  /\ UNCHANGED samplerVars

cancelledUtteranceEvent ==
  \E u \in cancelled, outcome \in CancelOutcomes : CancelledUtteranceEvent(u, outcome)

Next ==
  \/ handleToggleAssistant
  \/ loadVoices
  \/ startCameraResolved
  \/ startCameraRejected
  \/ processFrame
  \/ analysisReturned
  \/ utteranceOnStart
  \/ utteranceOnEnd
  \/ utteranceOnError
  \/ cancelledUtteranceEvent

Spec == Init /\ [][Next]_vars

\* ---------------------------------------------- the frame sampler alone
\* The downscale of processFrame (lines 115-134) applied to a frame of any
\* of the sizes above, outside a session.

SamplerInit ==
  /\ isAssistantActive = FALSE
  /\ statusMessage = StatusIdle
  /\ error = NoError
  /\ voices = <<>>
  /\ mediaStreamRef = NoStream
  /\ processingIntervalRef = NoInterval
  /\ isProcessingRef = FALSE
  /\ isSpeakingRef = FALSE
  /\ streams = {}
  /\ timers = {}
  /\ gumPending = EmptyBag
  /\ analyses = EmptyBag
  /\ utter = None
  /\ cancelled = {}
  /\ videoSize \in VideoEdges \X VideoEdges
  /\ canvasSize = DefaultCanvas

\* lines 116-134: canvas.width, canvas.height = the target size
sizeCanvas ==
  /\ \E target \in TargetSizes(videoSize[1], videoSize[2]) : canvasSize' = target
  /\ UNCHANGED << videoSize, sessionVars >>

SamplerNext == sizeCanvas

SamplerSpec == SamplerInit /\ [][SamplerNext]_vars

TypeOK ==
  /\ isAssistantActive \in BOOLEAN
  /\ isProcessingRef \in BOOLEAN
  /\ isSpeakingRef \in BOOLEAN
  /\ voices \in VoiceLists
  /\ mediaStreamRef \in Nat
  /\ processingIntervalRef \in Nat
  /\ BagCardinality(analyses) <= MaxPendingCalls
  /\ BagCardinality(gumPending) <= MaxCameraRequests
  /\ videoSize \in Nat \X Nat
  /\ canvasSize \in Nat \X Nat

\* ---------------------------------------------------------- properties

\* the descriptions a capture/analyze/speak cycle passes to speak()
CycleTexts == {AnalyzeErrorText, NoViewText} \cup SceneTexts

\* the pending analysis calls issued in the session that is running
CurrentCalls == {a \in BagToSet(analyses) : a.current}

\* a tick runs a cycle: it reads a frame and calls analyzeScene
CycleRuns == \E size \in VideoSizes : ProcessFrameCycle(size)

\* C1: within one session at most one analysis call is pending: of the
\* pending calls at most one was issued in the session that is running.
C1_OnePendingPerSession ==
  \A a, b \in CurrentCalls :
    a = b /\ CopiesIn(a, analyses) = 1

\* C2: from the moment a cycle hands its description to speak() until that
\* utterance has ended or errored, no tick runs a cycle.
C2_NoCallWhileCycleUtterance ==
  [][(utter # None /\ utter.text \in CycleTexts) => ~CycleRuns]_vars

\* C3: when an analysis call returns after its session was stopped, its
\* result is discarded: the step that takes it leaves the synthesizer, the
\* status text and the error as they were.
C3_StaleResultDiscarded ==
  [][\A a \in BagToSet(analyses), response \in Responses :
       (~a.current /\ AnalysisReturns(a, response))
         => UNCHANGED << utter, cancelled, statusMessage, error >>]_vars

\* C4: once the session is idle and no getUserMedia request is pending, no
\* camera stream is live and mediaStreamRef is null.
C4_IdleHoldsNoCamera ==
  (~isAssistantActive /\ gumPending = EmptyBag)
    => (streams = {} /\ mediaStreamRef = NoStream)

\* C5: stopping cancels the tick: an idle session has no live interval, the
\* only live interval is the one processingIntervalRef names, and a tick
\* runs a cycle only in an active session (so none between a start and a
\* stop that precedes the first tick, and none after the stop).
C5_StopCancelsTick ==
  /\ [](/\ ~isAssistantActive => timers = {}
        /\ timers \subseteq {processingIntervalRef}
        /\ Cardinality(timers) <= 1)
  /\ [][CycleRuns => (isAssistantActive /\ isAssistantActive')]_vars

\* the session was started and stopped again while the camera request of
\* the start is still pending and no call was made
C5_Witness ==
  /\ ~isAssistantActive /\ gumPending # EmptyBag /\ analyses = EmptyBag
  /\ timers = {} /\ processingIntervalRef = NoInterval /\ utter = None
  /\ statusMessage = StatusIdle

\* C6: when getUserMedia rejects, the session is idle and the permission
\* message is the error shown, and while the session stays idle the message
\* is not replaced (a failure of the synthesizer itself set aside).
C6_CameraErrorRemains ==
  [][(\/ startCameraRejected
      \/ /\ error = CameraErrorMessage
         /\ ~isAssistantActive /\ ~isAssistantActive'
         /\ ~utteranceOnError)
       => (error' = CameraErrorMessage /\ ~isAssistantActive')]_vars

\* C7: when getUserMedia rejects in an active session, the error utterance
\* is submitted once and is still in the synthesizer's queue, not cancelled,
\* when the forced stop has run.
C7_CameraErrorSpoken ==
  [][(isAssistantActive /\ startCameraRejected)
       => (utter' # None /\ utter'.text = CameraErrorText)]_vars

\* C8: a failed analysis is not fatal: the step that takes the failure
\* leaves the active flag, the interval and the camera as they were, and
\* when the error utterance ends in an active session with no call pending,
\* the next tick passes processFrame's guard and issues a call.
C8_FailureNotFatal ==
  /\ [][(\E a \in BagToSet(analyses) : AnalysisReturns(a, Rejected))
          => UNCHANGED << isAssistantActive, timers, processingIntervalRef,
                          mediaStreamRef, streams >>]_vars
  /\ [][(/\ utteranceOnEnd /\ utter.text = AnalyzeErrorText
         /\ isAssistantActive /\ analyses = EmptyBag)
          => (timers' # {} /\ ~isProcessingRef' /\ ~isSpeakingRef')]_vars

\* the error utterance of a failed analysis is being spoken in an active
\* session that holds the camera and has no call pending
C8_Witness ==
  /\ utter.text = AnalyzeErrorText /\ utter.state = "speaking"
  /\ isAssistantActive /\ analyses = EmptyBag /\ mediaStreamRef # NoStream
  /\ timers # {}

\* C9: when the remote call fails, the error state is non-null and a fixed
\* error utterance is submitted.
C9_FailureSurfaced ==
  [][(\E a \in BagToSet(analyses) : AnalysisReturns(a, Rejected))
       => (error' # NoError /\ utter'.text \in {AnalyzeErrorText, FrameErrorText})]_vars

\* C10: no tick runs a cycle (reads a frame, calls analyzeScene) before the
\* camera of the session has been acquired.
C10_CameraBeforeTick ==
  [][CycleRuns => mediaStreamRef # NoStream]_vars

\* C11: a start from idle clears the error and announces "Starting
\* assistant.": when the toggle, with the render and the effect run it
\* causes, is done, the error is null and that utterance is in the
\* synthesizer's queue, not cancelled.
C11_StartAnnounced ==
  [][(~isAssistantActive /\ handleToggleAssistant)
       => (error' = NoError /\ utter' # None /\ utter'.text = StartingText)]_vars

\* C12: in an active session, when an analysis call returns a description
\* T, speak is given exactly T: the utterance queued by that step carries
\* T.  When an utterance starts, the status is "Speaking..."; when the
\* utterance of a description ends in a session that is still active, the
\* status is "Listening..." again and the speaking flag is down.
C12_DescriptionSpoken ==
  /\ [][\A a \in BagToSet(analyses), T \in SceneTexts :
          (isAssistantActive /\ AnalysisReturns(a, T))
            => (utter' # None /\ utter'.text = T /\ utter'.state = "queued")]_vars
  /\ [][utteranceOnStart
          => (statusMessage' = StatusSpeaking /\ isSpeakingRef'
              /\ utter'.text = utter.text)]_vars
  /\ [][(utteranceOnEnd /\ utter.text \in SceneTexts /\ isAssistantActive)
          => (statusMessage' = StatusListening /\ ~isSpeakingRef')]_vars

\* the description of a frame is being spoken in an active session that
\* holds the camera
C12_Witness ==
  /\ isAssistantActive /\ mediaStreamRef # NoStream
  /\ utter.text \in SceneTexts /\ utter.state = "speaking"
  /\ statusMessage = StatusSpeaking /\ isSpeakingRef

\* C13: stopping resets the status: while the session is idle the status
\* text is the default "Tap screen to begin", whatever callbacks arrive
\* after the stop.
C13_IdleStatusDefault ==
  ~isAssistantActive => statusMessage = StatusIdle

\* the stop branch of the start/stop effect runs in a session that is
\* already idle (a voiceschanged event rebuilds speak and re-runs the effect)
StopWhenIdle == ~isAssistantActive /\ loadVoices

\* C14: stop is idempotent: when the stop branch of the start/stop effect
\* runs in a session that is already idle, the active flag, the status
\* text, the error, the camera (reference and live streams), the interval
\* (reference and live timers) and the processing and speaking flags stay
\* as they were.
C14_StopIdempotent ==
  [][StopWhenIdle
       => UNCHANGED << isAssistantActive, statusMessage, error, mediaStreamRef,
                       streams, processingIntervalRef, timers, isProcessingRef,
                       isSpeakingRef >>]_vars

\* an utterance reports an error: the queued or speaking one fails, or a
\* cancelled one gets its error event
SpeechErrorReported ==
  \/ utteranceOnError
  \/ \E u \in cancelled : CancelledUtteranceEvent(u, "error")

\* C15: a speech error is not fatal: when an utterance reports an error in
\* an active session, the speaking flag is down and the speech error is the
\* error shown, and the active flag, the camera, the interval and the
\* pending calls are as they were; the interval is live, so a tick that
\* finds no cycle in progress passes processFrame's guard.
C15_SpeechErrorNotFatal ==
  [][(isAssistantActive /\ SpeechErrorReported)
       => /\ ~isSpeakingRef' /\ error' = SpeechErrorMessage
          /\ UNCHANGED << isAssistantActive, mediaStreamRef, streams, timers,
                          processingIntervalRef, isProcessingRef, analyses >>
          /\ timers' # {}]_vars

\* after a speech error in the running session, with the synthesizer idle
\* again, a tick has started an analysis call on the acquired camera
C15_Witness ==
  /\ isAssistantActive /\ error = SpeechErrorMessage
  /\ mediaStreamRef # NoStream /\ timers # {}
  /\ utter = None /\ cancelled = {}
  /\ isProcessingRef /\ analyses # EmptyBag

\* C16: every text a cycle passes to speak() is non-empty: the utterance
\* queued when an analysis call returns carries "No clear view." when the
\* response has no text or an empty one, and the response's text unchanged
\* when it has one; a cycle that speaks within its tick speaks a non-empty
\* text too.
C16_NeverSpeaksEmpty ==
  /\ [][\A a \in BagToSet(analyses), response \in Responses :
          AnalysisReturns(a, response)
            => /\ utter' # None /\ utter'.text # ""
               /\ response \in {Undefined, ""} => utter'.text = NoViewText
               /\ response \in SceneTexts => utter'.text = response]_vars
  /\ [][CycleRuns => (utter' = utter \/ (utter' # None /\ utter'.text # ""))]_vars

\* the fallback phrase is queued and no call is pending
C16_Witness ==
  /\ utter.text = NoViewText /\ utter.state = "queued" /\ analyses = EmptyBag

\* the sampler has sized the canvas for the frame
CanvasSized == canvasSize # DefaultCanvas

\* the edges of the frame and of the canvas, long edge first; the long edge
\* of the canvas is the one along the frame's long edge
VideoLongShort ==
  IF videoSize[1] > videoSize[2] THEN videoSize ELSE << videoSize[2], videoSize[1] >>
CanvasLongShort ==
  IF videoSize[1] > videoSize[2] THEN canvasSize ELSE << canvasSize[2], canvasSize[1] >>

\* C17: for a frame of positive width and height, the target size has no
\* edge above 480; it is the frame's size when the frame's long edge is at
\* most 480; otherwise its long edge is 480 and its short edge is an
\* integer nearest to short * 480 / long (at most a half away from it).
C17_TargetSizeBounded ==
  CanvasSized =>
    /\ canvasSize[1] <= MAX_DIMENSION /\ canvasSize[2] <= MAX_DIMENSION
    /\ VideoLongShort[1] <= MAX_DIMENSION => canvasSize = videoSize
    /\ VideoLongShort[1] > MAX_DIMENSION =>
         /\ CanvasLongShort[1] = MAX_DIMENSION
         /\ 2 * CanvasLongShort[2] * VideoLongShort[1]
              <= 2 * MAX_DIMENSION * VideoLongShort[2] + VideoLongShort[1]
         /\ 2 * MAX_DIMENSION * VideoLongShort[2]
              <= 2 * CanvasLongShort[2] * VideoLongShort[1] + VideoLongShort[1]

\* a 704 x 11 frame, whose scaled short edge 7.5 is a half, was sized to
\* 480 x 7
C17_Witness ==
  videoSize = <<704, 11>> /\ canvasSize = <<480, 7>>

\* C18: at most one camera stream is live: every stream that was obtained
\* and whose tracks are not stopped is the one mediaStreamRef refers to.
C18_OneLiveStream ==
  /\ streams \subseteq {mediaStreamRef}
  /\ Cardinality(streams) <= 1

\* C19: the processing flag mirrors the analysis in flight: isProcessingRef
\* is true exactly when a call issued by processFrame has not returned.
C19_FlagMirrorsCall ==
  isProcessingRef <=> analyses # EmptyBag

\* C20: a voiceschanged event changes the voices only: the active flag, the
\* camera stream (its reference and the live streams), the interval (its
\* reference and the live timers) and the utterance queued or playing are
\* as they were.
C20_VoicesChangeOnly ==
  [][loadVoices
       => UNCHANGED << isAssistantActive, mediaStreamRef, streams,
                       processingIntervalRef, timers, utter >>]_vars

====
